---------------------------- MODULE Spec2Model ----------------------------
(***************************************************************************)
(* Model of the KKnD 2 map decoder (src/src/map.rs): parse_map, read_layer,*)
(* read_raw_tile and create_tile_from_raw, run over a byte stream.         *)
(*                                                                         *)
(* Numbers read from the stream are kept as little-endian byte tuples      *)
(* ("words"): a u32 is a 4-byte word, a u64 an 8-byte word.  The u32 and   *)
(* u64 arithmetic of the code is carried out limb by limb on these words,  *)
(* so that the 32-bit and 64-bit widths of the code are the widths of the  *)
(* model.  A word is turned into a TLA+ number only where it is known to   *)
(* be small (a stream position inside the stream, a count that the stream  *)
(* can satisfy).                                                           *)
(***************************************************************************)
EXTENDS Integers, Sequences, FiniteSets, TLC

VARIABLES
    stream,         \* the bytes behind the reader (whole file, magic and base included)
    build,          \* "debug": overflow checks on; "release": wrapping arithmetic
    file_offsets,   \* parse_map's base offset correction (u32 word)
    pc,             \* position in parse_map / read_layer
    pos,            \* the reader's stream position
    layers,         \* layer count read from the header (u32 word)
    layer_offsets,  \* Vec<u64> of declared layer offsets (8-byte words)
    palette,        \* Vec<Colour>
    map_layers,     \* Vec<MapLayer> collected so far
    i,              \* loop index of parse_map's layer loop (0-based)
    layer,          \* read_layer's locals: geometry, map_size, tile_map, tiles
    result,         \* "running", or how the call ended: "ok", "err", "panic"
    ret,            \* the value returned: a Map on "ok", an error on "err"
    raw_calls,      \* log of read_raw_tile invocations: layer, key, offset
    seeks,          \* log of parse_map's per-layer seeks: index, target
    fn_arg,         \* argument of the pure function under check
    fn_res          \* its result

vars == << stream, build, file_offsets, pc, pos, layers, layer_offsets, palette,
           map_layers, i, layer, result, ret, raw_calls, seeks, fn_arg, fn_res >>

(***************************************************************************)
(* Words: little-endian byte tuples and the integer arithmetic on them.    *)
(***************************************************************************)
Byte == 0..255

\* The k-byte little-endian word of a number n < 2^24.
Word(n, k) == [j \in 1..k |-> IF j > 3 THEN 0 ELSE (n \div (256 ^ (j - 1))) % 256]

\* Zero extension (u32 as u64) and truncation (as u32) of a word to k bytes.
Resize(w, k) == [j \in 1..k |-> IF j <= Len(w) THEN w[j] ELSE 0]

\* A word below 2^16: every stream of the model is shorter than that.
Near(w) == \A j \in 3..Len(w) : w[j] = 0

Val(w) == w[1] + 256 * w[2]

IsZero(w) == \A j \in 1..Len(w) : w[j] = 0

RECURSIVE Carry(_, _, _)
Carry(a, b, j) ==
    IF j = 1 THEN 0 ELSE (a[j - 1] + b[j - 1] + Carry(a, b, j - 1)) \div 256

\* a + b on words of one length: the wrapped sum and whether it overflowed.
AddW(a, b) ==
    [val |-> [j \in 1..Len(a) |-> (a[j] + b[j] + Carry(a, b, j)) % 256],
     overflow |-> Carry(a, b, Len(a) + 1) = 1]

RECURSIVE Borrow(_, _, _)
Borrow(a, b, j) ==
    IF j = 1 THEN 0
    ELSE IF a[j - 1] - b[j - 1] - Borrow(a, b, j - 1) < 0 THEN 1 ELSE 0

\* a - b on words of one length: the wrapped difference and whether it underflowed.
SubW(a, b) ==
    [val |-> [j \in 1..Len(a) |-> (a[j] - b[j] - Borrow(a, b, j) + 256) % 256],
     overflow |-> Borrow(a, b, Len(a) + 1) = 1]

RECURSIVE LimbProducts(_, _, _, _)
LimbProducts(a, b, k, j) ==
    IF j = 0 THEN 0
    ELSE (IF k + 1 - j \in 1..Len(b) THEN a[j] * b[k + 1 - j] ELSE 0)
         + LimbProducts(a, b, k, j - 1)

RECURSIVE MulCarry(_, _, _)
MulCarry(a, b, k) ==
    IF k = 1 THEN 0
    ELSE (LimbProducts(a, b, k - 1, Len(a)) + MulCarry(a, b, k - 1)) \div 256

\* The exact product of two words of length n, as a word of length 2n.
MulWide(a, b) ==
    [k \in 1..(2 * Len(a)) |->
        (LimbProducts(a, b, k, Len(a)) + MulCarry(a, b, k)) % 256]

\* a * b on words of one length: the wrapped product and whether it overflowed.
MulW(a, b) ==
    [val |-> Resize(MulWide(a, b), Len(a)),
     overflow |-> \E k \in (Len(a) + 1)..(2 * Len(a)) : MulWide(a, b)[k] # 0]

\* tile_id % 4 and tile_id - (tile_id % 4): the subtraction cannot underflow.
Mod4(w) == Word(w[1] % 4, Len(w))

\* Bit operations on numbers below 2^16, bit by bit.
RECURSIVE BitAnd(_, _)
BitAnd(a, b) ==
    IF a = 0 \/ b = 0 THEN 0
    ELSE (a % 2) * (b % 2) + 2 * BitAnd(a \div 2, b \div 2)

ShiftR(a, n) == a \div (2 ^ n)

ShiftL(a, n) == a * (2 ^ n)

(***************************************************************************)
(* The reader: a seekable byte stream.  Positions are 0-based.             *)
(***************************************************************************)
DATA_HEADER_SIZE == 8

\* 0x5343524c, as read_u32::<LittleEndian> sees it in the stream.
LAYER_MAGIC == << 76, 82, 67, 83 >>

\* read_exact of n bytes at position p succeeds iff the stream holds them.
CanRead(s, p, n) == p + n <= Len(s)

Bytes(s, p, n) == SubSeq(s, p + 1, p + n)

\* Overflow of u32/u64 arithmetic: a panic with overflow checks (debug
\* profile), the wrapped value without them (release profile).
Panics(r, b) == r.overflow /\ b = "debug"

\* Mutant of UnpackColour: green shifted as if it were the blue field's width.
UnpackColourGreenShift3(colour_packed) ==
    [r |-> BitAnd(ShiftR(BitAnd(colour_packed, \h7c00), 7), \hff),
     g |-> BitAnd(ShiftR(BitAnd(colour_packed, \h03e0), 3), \hff),
     b |-> BitAnd(ShiftL(BitAnd(colour_packed, \h001f), 3), \hff)]

\* colour_packed -> Colour.
UnpackColour(colour_packed) ==
    [r |-> BitAnd(ShiftR(BitAnd(colour_packed, \h7c00), 7), \hff),
     g |-> BitAnd(ShiftR(BitAnd(colour_packed, \h03e0), 2), \hff),
     b |-> BitAnd(ShiftL(BitAnd(colour_packed, \h001f), 3), \hff)]

\* Mutant of read_raw_tile: the saved stream position is not restored.
read_raw_tile_no_restore(s, b, p, offset, width, height) ==
    LET size == MulW(width, height)
        n == Val(size.val)
    IN  IF Panics(size, b)
        THEN [status |-> "panic", buffer |-> << >>, pos |-> p]
        ELSE IF IsZero(size.val)
        THEN [status |-> "ok", buffer |-> << >>, pos |-> p]
        ELSE IF Near(offset) /\ Near(size.val) /\ CanRead(s, Val(offset), n)
        THEN [status |-> "ok", buffer |-> Bytes(s, Val(offset), n),
              pos |-> Val(offset) + n]
        ELSE [status |-> "err", buffer |-> << >>, pos |-> p]

\* read_raw_tile called with the reader at position p: the outcome, the buffer
\* and the position the reader is left at.  offset is a u64 word.
read_raw_tile(s, b, p, offset, width, height) ==
    LET size == MulW(width, height)
        n == Val(size.val)
    IN  IF Panics(size, b)
        THEN [status |-> "panic", buffer |-> << >>, pos |-> p]
        ELSE IF IsZero(size.val)
        THEN [status |-> "ok", buffer |-> << >>, pos |-> p]
        ELSE IF Near(offset) /\ Near(size.val) /\ CanRead(s, Val(offset), n)
        THEN [status |-> "ok", buffer |-> Bytes(s, Val(offset), n),
              pos |-> p]
        ELSE [status |-> "err", buffer |-> << >>, pos |-> p]

\* Mutant of Pixels: index 0 is pushed as opaque black.
RECURSIVE PixelsOpaqueZero(_, _, _)
PixelsOpaqueZero(data, pal, n) ==
    IF n = 0 THEN << >>
    ELSE PixelsOpaqueZero(data, pal, n - 1) \o
         (IF data[n] = 0
          THEN << 0, 0, 0, \hff >>
          ELSE << pal[data[n] + 1].r, pal[data[n] + 1].g, pal[data[n] + 1].b, \hff >>)

\* The pixels create_tile_from_raw has pushed after the first n raw bytes.
RECURSIVE Pixels(_, _, _)
Pixels(data, pal, n) ==
    IF n = 0 THEN << >>
    ELSE Pixels(data, pal, n - 1) \o
         (IF data[n] = 0
          THEN << 0, 0, 0, 0 >>
          ELSE << pal[data[n] + 1].r, pal[data[n] + 1].g, pal[data[n] + 1].b, \hff >>)

\* create_tile_from_raw: palette[palette_index] panics past the palette's end.
create_tile_from_raw(data, pal) ==
    IF \E k \in 1..Len(data) : data[k] # 0 /\ data[k] >= Len(pal)
    THEN [status |-> "panic", pixels |-> << >>]
    ELSE [status |-> "ok", pixels |-> Pixels(data, pal, Len(data))]

\* tile_map.push(tile_id - (tile_id % 4))
TileMapEntry(tile_id) == SubW(tile_id, Mod4(tile_id)).val

\* Mutant of TileOffset: the flag bits are left in the key.
TileOffsetWithFlags(tile_id) == tile_id

\* let offset = tile_id - (tile_id % 4)
TileOffset(tile_id) == SubW(tile_id, Mod4(tile_id)).val

\* Mutant of NeedsDecode: the cache is not consulted.
NeedsDecodeAlways(tiles, offset) == TRUE

\* !tiles.contains_key(&offset)
NeedsDecode(tiles, offset) == offset \notin DOMAIN tiles

\* (offset + DATA_HEADER_SIZE - file_offsets) as u64, in u32 arithmetic.
TileDataOffset(offset, base) ==
    LET sum == AddW(offset, Word(DATA_HEADER_SIZE, 4))
        dif == SubW(sum.val, base)
    IN  [val |-> Resize(dif.val, 8), overflow |-> sum.overflow \/ dif.overflow]

\* layer_offsets[i] + DATA_HEADER_SIZE as u64 - file_offsets as u64
LayerStart(layer_offset, base) ==
    LET sum == AddW(layer_offset, Word(DATA_HEADER_SIZE, 8))
        dif == SubW(sum.val, Resize(base, 8))
    IN  [val |-> dif.val, overflow |-> sum.overflow \/ dif.overflow]

NoValue == [tag |-> "none"]

IoError == [tag |-> "error", kind |-> "io"]

\* A panic: "overflow" (arithmetic, with overflow checks) or "index" (a
\* palette index out of bounds).
Panic(why) == [tag |-> "panic", why |-> why]

\* Mutant of MagicError: the layer is named counting from 1.
MagicErrorFromOne(index, magic, offset) ==
    [tag |-> "error", kind |-> "magic", index |-> index + 1, magic |-> magic,
     offset |-> offset]

MagicError(index, magic, offset) ==
    [tag |-> "error", kind |-> "magic", index |-> index, magic |-> magic,
     offset |-> offset]

NoLayer == [tag |-> "none"]

(***************************************************************************)
(* Input files.  A file is the magic 0xdeadc0de, the base offset, the map  *)
(* header (version, layer count, layer offsets, palette), two raw tiles    *)
(* and the layers.  Offsets stored in the file are positions minus         *)
(* DATA_HEADER_SIZE plus the base offset.  The files below are well formed *)
(* or malformed: stray tile codes, palette indices past the palette, a     *)
(* wrong layer magic, grid sizes whose product leaves 32 bits, truncation. *)
(***************************************************************************)
MaxCells == 2

MaxPalette == 3

MaxLayers == 2

\* 0xdeadc0de, little-endian.
FILE_MAGIC == << 222, 192, 173, 222 >>

Builds == { "debug", "release" }

\* Base offsets: 0, 8 and 2^32 - 256.
Bases == { Word(0, 4), Word(8, 4), << 0, 255, 255, 255 >> }

RECURSIVE Flatten(_)
Flatten(seqs) ==
    IF seqs = << >> THEN << >> ELSE Head(seqs) \o Flatten(Tail(seqs))

\* The k-th packed colour of a file: 0x7fff, 0x0420, 0x8841, ...
PackedSample(k) == (32767 + (k - 1) * 33825) % 65536

PaletteBytes(n) == Flatten([k \in 1..n |-> Word(PackedSample(k), 2)])

\* Two raw tiles of up to two palette indices each, 4 bytes apart.
TilePool == << 0, 1, 0, 0, 2, 1, 0, 0 >>

HeaderLen(nlayers, npal) == 8 + 4 + 4 + 4 * nlayers + 4 + 2 * npal

PoolPos(nlayers, npal) ==
    HeaderLen(nlayers, npal) + ((4 - (HeaderLen(nlayers, npal) % 4)) % 4)

\* The word a file stores for stream position p.
StoredOffset(p, base) == AddW(Word(p - DATA_HEADER_SIZE, 4), base).val

\* The tile codes a grid cell may hold: no tile (0, and 3: flag bits only),
\* the first tile (plain, and with a flag bit), the second tile, and two codes
\* that point at no tile of the file (4 and 0xffffffff).
CodeTable(pool, base) ==
    << Word(0, 4),
       Word(3, 4),
       StoredOffset(pool, base),
       AddW(StoredOffset(pool, base), Word(2, 4)).val,
       StoredOffset(pool + 4, base),
       Word(4, 4),
       << 255, 255, 255, 255 >> >>

Codes == 1..7

LayerLen(ld) == 4 + 16 + 12 + 4 * Len(ld.cells)

LayerBytes(ld, pool, base) ==
    ld.magic \o ld.tw \o ld.th \o ld.mw \o ld.mh \o [k \in 1..12 |-> 0]
    \o Flatten([k \in 1..Len(ld.cells) |-> CodeTable(pool, base)[ld.cells[k]]])

RECURSIVE LayerPos(_, _, _)
LayerPos(lays, k, first) ==
    IF k = 1 THEN first
    ELSE LayerPos(lays, k - 1, first) + LayerLen(lays[k - 1])

File(d) ==
    LET n == Len(d.lays)
        pool == PoolPos(n, d.npal)
        first == pool + Len(TilePool)
    IN  FILE_MAGIC \o d.base
        \o Word(1, 4)
        \o Word(n, 4)
        \o Flatten([k \in 1..n |-> StoredOffset(LayerPos(d.lays, k, first), d.base)])
        \o Word(d.npal, 4)
        \o PaletteBytes(d.npal)
        \o [k \in 1..(pool - HeaderLen(n, d.npal)) |-> 0]
        \o TilePool
        \o Flatten([k \in 1..n |-> LayerBytes(d.lays[k], pool, d.base)])

LayerDesc(magic, tw, th, mw, mh, cells) ==
    [magic |-> magic, tw |-> tw, th |-> th, mw |-> mw, mh |-> mh, cells |-> cells]

TileDims == { << 1, 1 >>, << 2, 1 >> }

GridShapes ==
    { g \in (0..MaxCells) \X (0..MaxCells) : g[1] * g[2] <= MaxCells }

\* Every layer with a grid of at most MaxCells cells.
GridLayers ==
    UNION { { LayerDesc(LAYER_MAGIC, Word(t[1], 4), Word(t[2], 4),
                        Word(g[1], 4), Word(g[2], 4), c)
              : c \in [1..(g[1] * g[2]) -> Codes] }
            : t \in TileDims, g \in GridShapes }

\* Layers whose map_width * map_height is 2^32, and whose
\* tile_width * tile_height is 2^32.
WideLayers ==
    { LayerDesc(LAYER_MAGIC, Word(1, 4), Word(1, 4),
                << 0, 0, 1, 0 >>, << 0, 0, 1, 0 >>, << >>),
      LayerDesc(LAYER_MAGIC, << 0, 0, 1, 0 >>, << 0, 0, 1, 0 >>,
                Word(1, 4), Word(1, 4), << 3 >>) }

GoodLayer ==
    LayerDesc(LAYER_MAGIC, Word(2, 4), Word(1, 4), Word(2, 4), Word(1, 4),
              << 4, 5 >>)

\* The layers of the files with several layers.
FewLayers ==
    { GoodLayer,
      [GoodLayer EXCEPT !.magic = << 76, 82, 67, 84 >>],
      LayerDesc(LAYER_MAGIC, Word(1, 4), Word(1, 4), Word(1, 4), Word(1, 4),
                << 5 >>),
      LayerDesc(LAYER_MAGIC, Word(2, 4), Word(1, 4), Word(0, 4), Word(0, 4),
                << >>) }

\* One layer: every grid under every base offset with a full palette, and the
\* layers of FewLayers under every base offset and every palette length.
SingleLayerFiles ==
    { [base |-> b, npal |-> MaxPalette, lays |-> << l >>]
      : b \in Bases, l \in GridLayers \cup WideLayers }
    \cup
    { [base |-> b, npal |-> n, lays |-> << l >>]
      : b \in Bases, n \in 0..MaxPalette, l \in FewLayers }

MultiLayerFiles ==
    UNION { { [base |-> Word(0, 4), npal |-> MaxPalette, lays |-> ls]
              : ls \in [1..n -> FewLayers] }
            : n \in 0..MaxLayers }

FullFile == File([base |-> Word(0, 4), npal |-> MaxPalette,
                  lays |-> [k \in 1..MaxLayers |-> GoodLayer]])

\* load_map has read the magic and the base offset: at least 8 bytes.
TruncatedFiles == { SubSeq(FullFile, 1, n) : n \in 8..(Len(FullFile) - 1) }

Inputs ==
    { File(d) : d \in SingleLayerFiles \cup MultiLayerFiles } \cup TruncatedFiles

\* parse_map is entered: load_map has consumed the magic and the base offset.
Init ==
    /\ stream \in Inputs
    /\ build \in Builds
    /\ file_offsets = Bytes(stream, 4, 4)
    /\ pc = "header"
    /\ pos = 8
    /\ layers = Word(0, 4)
    /\ layer_offsets = << >>
    /\ palette = << >>
    /\ map_layers = << >>
    /\ i = 0
    /\ layer = NoLayer
    /\ result = "running"
    /\ ret = NoValue
    /\ raw_calls = << >>
    /\ seeks = << >>
    /\ fn_arg = << >>
    /\ fn_res = << >>

(***************************************************************************)
(* parse_map and read_layer, one action per stage.                         *)
(***************************************************************************)
Return(status, value) ==
    /\ result' = status
    /\ ret' = value
    /\ pc' = "done"

\* seek_relative(4); layers; the layer_offsets loop.
ReadHeader ==
    /\ pc = "header"
    /\ UNCHANGED << stream, build, file_offsets, palette, map_layers, i, layer,
                    raw_calls, seeks, fn_arg, fn_res >>
    /\ LET at == pos + 4
           count == Bytes(stream, at, 4)
           n == Val(count)
       IN  IF CanRead(stream, at, 4) /\ Near(count)
              /\ CanRead(stream, at + 4, 4 * n)
           THEN /\ layers' = count
                /\ layer_offsets' =
                       [k \in 1..n |-> Resize(Bytes(stream, at + 4 * k, 4), 8)]
                /\ pos' = at + 4 + 4 * n
                /\ pc' = "palette"
                /\ UNCHANGED << result, ret >>
           ELSE /\ Return("err", IoError)
                /\ UNCHANGED << layers, layer_offsets, pos >>

\* palette_size; the palette loop.
ReadPalette ==
    /\ pc = "palette"
    /\ UNCHANGED << stream, build, file_offsets, layers, layer_offsets,
                    map_layers, i, layer, raw_calls, seeks, fn_arg, fn_res >>
    /\ LET palette_size == Bytes(stream, pos, 4)
           n == Val(palette_size)
       IN  IF CanRead(stream, pos, 4) /\ Near(palette_size)
              /\ CanRead(stream, pos + 4, 2 * n)
           THEN /\ palette' =
                       [k \in 1..n |->
                           UnpackColour(Val(Bytes(stream, pos + 2 + 2 * k, 2)))]
                /\ pos' = pos + 4 + 2 * n
                /\ pc' = "layers"
                /\ UNCHANGED << result, ret >>
           ELSE /\ Return("err", IoError)
                /\ UNCHANGED << palette, pos >>

\* One pass of the layer loop up to the call of read_layer: seek, magic.
OpenLayer ==
    /\ pc = "layers"
    /\ i # Val(layers)
    /\ UNCHANGED << stream, build, file_offsets, layers, layer_offsets, palette,
                    map_layers, i, layer, raw_calls, fn_arg, fn_res >>
    /\ LET start == LayerStart(layer_offsets[i + 1], file_offsets)
           at == Val(start.val)
           layer_magic == Bytes(stream, at, 4)
       IN  IF Panics(start, build)
           THEN /\ Return("panic", Panic("overflow"))
                /\ UNCHANGED << pos, seeks >>
           ELSE /\ seeks' = Append(seeks, [index |-> i, target |-> start.val])
                /\ IF ~(Near(start.val) /\ CanRead(stream, at, 4))
                   THEN /\ Return("err", IoError)
                        /\ UNCHANGED pos
                   ELSE IF layer_magic # LAYER_MAGIC
                   THEN /\ Return("err", MagicError(i, layer_magic, at + 4))
                        /\ pos' = at + 4
                   ELSE /\ pos' = at + 4
                        /\ pc' = "layer"
                        /\ UNCHANGED << result, ret >>

\* read_layer up to its grid loop: geometry, the 12 skipped bytes, map_size.
ReadLayerHeader ==
    /\ pc = "layer"
    /\ UNCHANGED << stream, build, file_offsets, layers, layer_offsets, palette,
                    map_layers, i, raw_calls, seeks, fn_arg, fn_res >>
    /\ LET map_width == Bytes(stream, pos + 8, 4)
           map_height == Bytes(stream, pos + 12, 4)
           map_size == MulW(map_width, map_height)
       IN  IF ~CanRead(stream, pos, 16)
           THEN /\ Return("err", IoError)
                /\ UNCHANGED << pos, layer >>
           ELSE IF Panics(map_size, build)
           THEN /\ Return("panic", Panic("overflow"))
                /\ UNCHANGED << pos, layer >>
           ELSE /\ layer' = [tag |-> "layer",
                             tile_width |-> Bytes(stream, pos, 4),
                             tile_height |-> Bytes(stream, pos + 4, 4),
                             map_width |-> map_width,
                             map_height |-> map_height,
                             map_size |-> Resize(map_size.val, 8),
                             tile_map |-> << >>,
                             tiles |-> << >>]
                /\ pos' = pos + 16 + 12
                /\ pc' = "grid"
                /\ UNCHANGED << result, ret >>

\* One pass of read_layer's grid loop.
ReadTileCode ==
    /\ pc = "grid"
    /\ ~(Near(layer.map_size) /\ Len(layer.tile_map) = Val(layer.map_size))
    /\ UNCHANGED << stream, build, file_offsets, layers, layer_offsets, palette,
                    map_layers, i, seeks, fn_arg, fn_res >>
    /\ LET tile_id == Bytes(stream, pos, 4)
           offset == TileOffset(tile_id)
           pushed == [layer EXCEPT !.tile_map = Append(@, TileMapEntry(tile_id))]
           where == TileDataOffset(offset, file_offsets)
           raw_tile == read_raw_tile(stream, build, pos + 4, where.val,
                                   layer.tile_width, layer.tile_height)
           tile == create_tile_from_raw(raw_tile.buffer, palette)
           called == Append(raw_calls,
                            [layer |-> i, key |-> offset, offset |-> where.val])
       IN  IF ~CanRead(stream, pos, 4)
           THEN /\ Return("err", IoError)
                /\ UNCHANGED << pos, layer, raw_calls >>
           ELSE IF IsZero(offset) \/ ~NeedsDecode(layer.tiles, offset)
           THEN /\ layer' = pushed
                /\ pos' = pos + 4
                /\ UNCHANGED << pc, result, ret, raw_calls >>
           ELSE IF Panics(where, build)
           THEN /\ Return("panic", Panic("overflow"))
                /\ layer' = pushed
                /\ pos' = pos + 4
                /\ UNCHANGED raw_calls
           ELSE IF raw_tile.status # "ok"
           THEN /\ Return(raw_tile.status,
                          IF raw_tile.status = "err" THEN IoError
                          ELSE Panic("overflow"))
                /\ layer' = pushed
                /\ pos' = raw_tile.pos
                /\ raw_calls' = called
           ELSE IF tile.status # "ok"
           THEN /\ Return("panic", Panic("index"))
                /\ layer' = pushed
                /\ pos' = raw_tile.pos
                /\ raw_calls' = called
           ELSE /\ layer' = [pushed EXCEPT !.tiles =
                                (offset :> tile.pixels) @@ @]
                /\ pos' = raw_tile.pos
                /\ raw_calls' = called
                /\ UNCHANGED << pc, result, ret >>

\* Mutant of CollectLayer: the new layer is put in front.
CollectLayerInFront(collected, new) == << new >> \o collected

\* read_layer returns its MapLayer; parse_map pushes it.
CollectLayer(collected, new) == Append(collected, new)

CloseLayer ==
    /\ pc = "grid"
    /\ Near(layer.map_size) /\ Len(layer.tile_map) = Val(layer.map_size)
    /\ map_layers' = CollectLayer(map_layers,
                        [map_width |-> layer.map_width,
                         map_height |-> layer.map_height,
                         tile_width |-> layer.tile_width,
                         tile_height |-> layer.tile_height,
                         tile_map |-> layer.tile_map,
                         tiles |-> layer.tiles])
    /\ layer' = NoLayer
    /\ i' = i + 1
    /\ pc' = "layers"
    /\ UNCHANGED << stream, build, file_offsets, pos, layers, layer_offsets,
                    palette, result, ret, raw_calls, seeks, fn_arg, fn_res >>

\* Ok(Map { layers: map_layers })
Finish ==
    /\ pc = "layers"
    /\ i = Val(layers)
    /\ Return("ok", [tag |-> "map", layers |-> map_layers])
    /\ UNCHANGED << stream, build, file_offsets, pos, layers, layer_offsets,
                    palette, map_layers, i, layer, raw_calls, seeks, fn_arg,
                    fn_res >>

Next ==
    \/ ReadHeader
    \/ ReadPalette
    \/ OpenLayer
    \/ ReadLayerHeader
    \/ ReadTileCode
    \/ CloseLayer
    \/ Finish

Spec == Init /\ [][Next]_vars

(***************************************************************************)
(* The pure functions on their own: one application to a drawn argument.   *)
(***************************************************************************)
MaxRaw == 3

\* Every packed 16-bit palette value.
InitColour ==
    /\ fn_arg \in 0..65535
    /\ fn_res = << >>
    /\ pc = "unpack"
    /\ stream = << >> /\ build = "release" /\ file_offsets = Word(0, 4)
    /\ pos = 0 /\ layers = Word(0, 4) /\ layer_offsets = << >>
    /\ palette = << >> /\ map_layers = << >> /\ i = 0 /\ layer = NoLayer
    /\ result = "running" /\ ret = NoValue /\ raw_calls = << >> /\ seeks = << >>

ApplyUnpackColour ==
    /\ pc = "unpack"
    /\ fn_res' = UnpackColour(fn_arg)
    /\ pc' = "unpacked"
    /\ UNCHANGED << stream, build, file_offsets, pos, layers, layer_offsets,
                    palette, map_layers, i, layer, result, ret, raw_calls,
                    seeks, fn_arg >>

SpecColour == InitColour /\ [][ApplyUnpackColour]_vars

\* Palettes of up to MaxPalette colours, black and non-black first entries.
SampleColours == { UnpackColour(0), UnpackColour(\h7fff), UnpackColour(\h0420) }

SamplePalettes == UNION { [1..n -> SampleColours] : n \in 0..MaxPalette }

\* Raw tiles of up to MaxRaw bytes: indices inside and just past the palette.
SampleRawTiles == UNION { [1..n -> 0..MaxPalette] : n \in 0..MaxRaw }

InitTile ==
    /\ fn_arg \in [data : SampleRawTiles, palette : SamplePalettes]
    /\ fn_res = << >>
    /\ pc = "tile"
    /\ stream = << >> /\ build = "release" /\ file_offsets = Word(0, 4)
    /\ pos = 0 /\ layers = Word(0, 4) /\ layer_offsets = << >>
    /\ palette = << >> /\ map_layers = << >> /\ i = 0 /\ layer = NoLayer
    /\ result = "running" /\ ret = NoValue /\ raw_calls = << >> /\ seeks = << >>

ApplyCreateTile ==
    /\ pc = "tile"
    /\ fn_res' = create_tile_from_raw(fn_arg.data, fn_arg.palette)
    /\ pc' = "tiled"
    /\ UNCHANGED << stream, build, file_offsets, pos, layers, layer_offsets,
                    palette, map_layers, i, layer, result, ret, raw_calls,
                    seeks, fn_arg >>

SpecTile == InitTile /\ [][ApplyCreateTile]_vars

(***************************************************************************)
(* What the stream declares, read off its bytes.                           *)
(***************************************************************************)
Zero4 == << 0, 0, 0, 0 >>

\* at + base = stored + 8 as integers (9 bytes hold either sum).
ExactlyAt(at, stored, base) ==
    AddW(Resize(at, 9), Resize(base, 9)).val
        = AddW(Resize(stored, 9), Word(8, 9)).val

\* A word with its low 2 bits cleared.
ClearLow2(w) == [w EXCEPT ![1] = 4 * (w[1] \div 4)]

\* The layer count and the k-th layer offset as the header stores them.
DeclaredCount == Bytes(stream, 12, 4)

DeclaredOffset(k) == Bytes(stream, 16 + 4 * (k - 1), 4)

\* The stream positions at which the k-th declared layer starts.
DeclaredStarts(k) ==
    { p \in 0..Len(stream) :
        /\ (p + file_offsets[1]) % 256 = (DeclaredOffset(k)[1] + 8) % 256
        /\ ExactlyAt(Word(p, 8), DeclaredOffset(k), file_offsets) }

\* l is the layer the stream holds at position p (magic at p).
HoldsLayerAt(l, p) ==
    /\ CanRead(stream, p, 32 + 4 * Len(l.tile_map))
    /\ Bytes(stream, p, 4) = LAYER_MAGIC
    /\ l.tile_width = Bytes(stream, p + 4, 4)
    /\ l.tile_height = Bytes(stream, p + 8, 4)
    /\ l.map_width = Bytes(stream, p + 12, 4)
    /\ l.map_height = Bytes(stream, p + 16, 4)
    /\ \A k \in 1..Len(l.tile_map) :
          l.tile_map[k] = ClearLow2(Bytes(stream, p + 32 + 4 * (k - 1), 4))

KeysOf(tile_map) == { tile_map[k] : k \in 1..Len(tile_map) }

(***************************************************************************)
(* C1: in every layer read_layer returned, and in every layer of a         *)
(* returned Map, the values of tile_map other than 0 are exactly the keys  *)
(* of tiles.                                                               *)
(***************************************************************************)
C1_TileKeysMatchGrid ==
    /\ \A k \in 1..Len(map_layers) :
          KeysOf(map_layers[k].tile_map) \ { Zero4 } = DOMAIN map_layers[k].tiles
    /\ result = "ok" =>
          \A k \in 1..Len(ret.layers) :
              KeysOf(ret.layers[k].tile_map) \ { Zero4 } = DOMAIN ret.layers[k].tiles

\* A returned layer with an empty cell and a tile, stored with a flag bit.
C1_Witness ==
    /\ result = "ok"
    /\ \E k \in 1..Len(ret.layers) :
          /\ Len(ret.layers[k].tile_map) = 2
          /\ ret.layers[k].tile_map[1] = Zero4
          /\ ret.layers[k].tile_map[2] # Zero4
          /\ Cardinality(DOMAIN ret.layers[k].tiles) = 1
          /\ \E p \in DeclaredStarts(k) : Bytes(stream, p + 36, 4)[1] % 4 = 2

(***************************************************************************)
(* C2 (as claimed): every layer read_layer returned has a tile_map of      *)
(* exactly map_width * map_height entries, the product taken as integers.  *)
(***************************************************************************)
C2_TileMapLengthIsProduct ==
    \A k \in 1..Len(map_layers) :
        MulWide(map_layers[k].map_width, map_layers[k].map_height)
            = Word(Len(map_layers[k].tile_map), 8)

(***************************************************************************)
(* C3: within one layer read_raw_tile is invoked at most once per key and  *)
(* never for key 0; cells with one key share the one entry of tiles.       *)
(***************************************************************************)
C3_DecodeOncePerKey ==
    /\ \A a, b \in 1..Len(raw_calls) :
          (raw_calls[a].layer = raw_calls[b].layer
           /\ raw_calls[a].key = raw_calls[b].key) => a = b
    /\ \A a \in 1..Len(raw_calls) :
          /\ raw_calls[a].key # Zero4
          /\ raw_calls[a].key = ClearLow2(raw_calls[a].key)
    /\ pc = "grid" =>
          /\ DOMAIN layer.tiles \subseteq KeysOf(layer.tile_map)
          /\ Cardinality({ a \in 1..Len(raw_calls) : raw_calls[a].layer = i })
                <= Cardinality(KeysOf(layer.tile_map) \ { Zero4 })

\* Two cells of a layer carry one key, with different low bits in the stream,
\* and the key was read once.
C3_Witness ==
    /\ pc = "grid"
    /\ Len(layer.tile_map) = 2
    /\ layer.tile_map[1] = layer.tile_map[2]
    /\ layer.tile_map[1] \in DOMAIN layer.tiles
    /\ Bytes(stream, pos - 8, 4) # Bytes(stream, pos - 4, 4)
    /\ Cardinality({ a \in 1..Len(raw_calls) : raw_calls[a].layer = i }) = 1

(***************************************************************************)
(* C4: a call that ends in an error returns the error and no Map, whatever *)
(* was decoded before; a wrong magic at the i-th declared layer is         *)
(* reported with index i.                                                  *)
(***************************************************************************)
C4_ErrorsAreFatal ==
    /\ result = "err" => ret.tag = "error"
    /\ ret.tag = "map" => result = "ok"
    /\ (ret.tag = "error" /\ ret.kind = "magic") =>
          /\ ret.index = Len(map_layers)
          /\ ret.index < Val(DeclaredCount)
          /\ \E p \in DeclaredStarts(ret.index + 1) :
                /\ Bytes(stream, p, 4) # LAYER_MAGIC
                /\ Bytes(stream, p, 4) = ret.magic
    /\ (pc = "done" /\ result = "ok") =>
          \A k \in 1..Val(DeclaredCount) :
              \E p \in DeclaredStarts(k) : Bytes(stream, p, 4) = LAYER_MAGIC

\* The second layer's magic is wrong after the first layer was decoded.
C4_Witness ==
    /\ result = "err"
    /\ ret.kind = "magic"
    /\ ret.index = 1
    /\ Len(map_layers) = 1
    /\ DOMAIN map_layers[1].tiles # {}

(***************************************************************************)
(* C5 (as claimed): every call ends with a Map or with a decode error, and *)
(* in no other way: no call ends in an abort.                              *)
(***************************************************************************)
C5_NeverAborts ==
    /\ result \in { "running", "ok", "err" }
    /\ pc = "done" =>
          \/ result = "ok" /\ ret.tag = "map"
          \/ result = "err" /\ ret.tag = "error"

(***************************************************************************)
(* C6: create_tile_from_raw on indices inside the palette yields 4 bytes   *)
(* per raw byte: (0,0,0,0) for index 0, (r,g,b,255) of the palette entry   *)
(* otherwise.                                                              *)
(***************************************************************************)
C6_TilePixels ==
    (pc = "tiled"
     /\ \A k \in 1..Len(fn_arg.data) :
           fn_arg.data[k] = 0 \/ fn_arg.data[k] < Len(fn_arg.palette)) =>
        /\ fn_res.status = "ok"
        /\ Len(fn_res.pixels) = 4 * Len(fn_arg.data)
        /\ \A k \in 1..Len(fn_arg.data) :
              SubSeq(fn_res.pixels, 4 * k - 3, 4 * k) =
                  IF fn_arg.data[k] = 0
                  THEN << 0, 0, 0, 0 >>
                  ELSE << fn_arg.palette[fn_arg.data[k] + 1].r,
                          fn_arg.palette[fn_arg.data[k] + 1].g,
                          fn_arg.palette[fn_arg.data[k] + 1].b, 255 >>

\* A tile with a transparent and an opaque pixel under a palette whose entry 0
\* is not black.
C6_Witness ==
    /\ pc = "tiled"
    /\ fn_res.status = "ok"
    /\ Len(fn_arg.data) = MaxRaw
    /\ fn_arg.data[1] = 0
    /\ fn_arg.data[2] = 1
    /\ fn_arg.palette[1] = UnpackColour(\h7fff)
    /\ SubSeq(fn_res.pixels, 1, 4) = << 0, 0, 0, 0 >>

(***************************************************************************)
(* C7 (as claimed): every position read_raw_tile is given is               *)
(* key + 8 - base, and every layer start parse_map seeks to is             *)
(* layer_offset + 8 - base, as integers.                                   *)
(***************************************************************************)
C7_OffsetsAreExact ==
    /\ \A a \in 1..Len(raw_calls) :
          ExactlyAt(raw_calls[a].offset, raw_calls[a].key, file_offsets)
    /\ \A a \in 1..Len(seeks) :
          ExactlyAt(seeks[a].target, layer_offsets[seeks[a].index + 1],
                    file_offsets)

(***************************************************************************)
(* C8: a returned Map has as many layers as the header declares, and its   *)
(* k-th layer is the layer stored at the k-th declared offset.             *)
(***************************************************************************)
C8_LayersInDeclaredOrder ==
    result = "ok" =>
        /\ Near(DeclaredCount)
        /\ Len(ret.layers) = Val(DeclaredCount)
        /\ \A k \in 1..Len(ret.layers) :
              \E p \in DeclaredStarts(k) : HoldsLayerAt(ret.layers[k], p)

\* A Map of at least two layers that differ.
C8_Witness ==
    /\ result = "ok"
    /\ Len(ret.layers) >= 2
    /\ ret.layers[1] # ret.layers[2]

(***************************************************************************)
(* C9: the colour of packed value v is 8 times its 5-bit fields: red bits  *)
(* 14-10, green bits 9-5, blue bits 4-0; bit 15 is ignored.                *)
(***************************************************************************)
C9_ColourChannels ==
    pc = "unpacked" =>
        /\ fn_res.r = 8 * ((fn_arg \div 1024) % 32)
        /\ fn_res.g = 8 * ((fn_arg \div 32) % 32)
        /\ fn_res.b = 8 * (fn_arg % 32)
        /\ \A c \in { fn_res.r, fn_res.g, fn_res.b } : c \in 0..248 /\ c % 8 = 0
        /\ fn_res = UnpackColour((fn_arg + 32768) % 65536)
        /\ fn_arg = 32767 => fn_res = [r |-> 248, g |-> 248, b |-> 248]

\* 0x7fff has been decoded.
C9_Witness ==
    /\ pc = "unpacked"
    /\ fn_arg = 32767
    /\ fn_res.g = 248

(***************************************************************************)
(* C10: while a grid is scanned the reader stands right after the last     *)
(* code read, 4 bytes per code from the grid's start, and tile_map holds   *)
(* the stored codes in order with their low 2 bits cleared.                *)
(***************************************************************************)
C10_GridReadInOrder ==
    pc = "grid" =>
        LET start == Val(seeks[Len(seeks)].target) + 32
        IN  /\ pos = start + 4 * Len(layer.tile_map)
            /\ \A k \in 1..Len(layer.tile_map) :
                  layer.tile_map[k] = ClearLow2(Bytes(stream, start + 4 * (k - 1), 4))

\* Two codes read, each after a tile decode.
C10_Witness ==
    /\ pc = "grid"
    /\ Len(layer.tile_map) = 2
    /\ Cardinality(DOMAIN layer.tiles) = 2
    /\ Cardinality({ a \in 1..Len(raw_calls) : raw_calls[a].layer = i }) = 2

=============================================================================
